---- MODULE Spec2Model ----
(***************************************************************************)
(* Model of the Telegram file proxy worker: the fetch entry point with its *)
(* route table (index.ts), the handlers (handlers.ts) and the helpers      *)
(* (utils.ts).  One inbound request is handled at a time; a handler is     *)
(* split at its suspension points (the body read and the upstream call).   *)
(*                                                                         *)
(* Strings that the code builds by interpolation are sequences of pieces,  *)
(* so that "contains" and "equals" are decided on what was concatenated.   *)
(* An optional value is a sequence of length 0 (absent) or 1 (present).    *)
(***************************************************************************)
EXTENDS Integers, Sequences, FiniteSets, TLC

VARIABLES env, request, pc, handler, params, bodyRead, calls, replied, response,
          previous, inflight, api

vars == <<env, request, pc, handler, params, bodyRead, calls, replied, response,
          previous, inflight, api>>

(***************************************************************************)
(* Bounds of the input space.                                              *)
(***************************************************************************)
MaxPhotos == 3

(***************************************************************************)
(* JavaScript values.                                                      *)
(***************************************************************************)
Undefined == "<undefined>"
Null == "<null>"

Truthy(s) == s \notin {Undefined, Null, ""}

OrElse(a, b) == IF Truthy(a) THEN a ELSE b

NoSize == -1

Contains(text, piece) == \E i \in 1..Len(text) : text[i] = piece

ContainsSeq(text, sub) ==
    \E i \in 0..(Len(text) - Len(sub)) :
        \A j \in 1..Len(sub) : text[i + j] = sub[j]

(***************************************************************************)
(* types.ts: the configuration and the inbound data.                       *)
(***************************************************************************)
BotTokens == {Undefined, "", "BOT:TOKEN"}
SecretTokens == {Undefined, "", "s3cret"}
WorkerUrls == {Undefined, "", "files.example.com"}

Envs == [BOT_TOKEN : BotTokens, SECRET_TOKEN : SecretTokens, WORKER_URL : WorkerUrls]

RequestHost == "worker.example.dev"

ChatId == 7

Chats == {<<>>, <<[id |-> ChatId]>>}

Documents == {<<>>,
              <<[file_id |-> "DOC", file_name |-> "report.pdf"]>>,
              <<[file_id |-> "DOC", file_name |-> Undefined]>>,
              <<[file_id |-> "", file_name |-> "report.pdf"]>>}

Videos == {<<>>, <<[file_id |-> "VID", file_name |-> "clip.mp4"]>>}

Audios == {<<>>, <<[file_id |-> "AUD", file_name |-> Undefined]>>}

Voices == {<<>>, <<[file_id |-> "VOI"]>>}

FileSizes == {NoSize, 100, 300, 500}

PhotoIds == <<"PH1", "PH2", "PH3", "PH4", "PH5">>

\* The photo arrays of length n: the i-th element has file_id PhotoIds[i].
PhotoArrays(n) ==
    {[i \in 1..n |-> [file_id |-> PhotoIds[i], file_size |-> f[i]]] :
        f \in [1..n -> FileSizes]}

AllPhotoArrays == UNION {PhotoArrays(n) : n \in 0..MaxPhotos}

SamplePhotos == <<[file_id |-> "PH1", file_size |-> 100],
                  [file_id |-> "PH2", file_size |-> 500],
                  [file_id |-> "PH3", file_size |-> 300]>>

Message(chat, document, video, audio, voice, photo) ==
    [chat |-> chat, document |-> document, video |-> video, audio |-> audio,
     voice |-> voice, photo |-> photo]

\* Messages whose only media is a photo array, and messages with any
\* combination of the other media together with no photo or a photo array.
Messages ==
    {Message(c, <<>>, <<>>, <<>>, <<>>, <<p>>) : c \in Chats, p \in AllPhotoArrays}
    \cup
    {Message(c, d, v, a, o, p) : c \in Chats, d \in Documents, v \in Videos,
                                 a \in Audios, o \in Voices,
                                 p \in {<<>>, <<SamplePhotos>>}}

\* What request.json() yields: a body that is not JSON, the JSON value null,
\* or an object with or without a message.
Bodies ==
    {[kind |-> "notjson", message |-> <<>>], [kind |-> "null", message |-> <<>>],
     [kind |-> "object", message |-> <<>>]}
    \cup {[kind |-> "object", message |-> <<m>>] : m \in Messages}

NoBody == [kind |-> "notjson", message |-> <<>>]

SecretHeaders == {Null, "", "s3cret", "wrong"}

Methods == {"GET", "POST", "OPTIONS"}

\* url.pathname split at "/" after the leading one: "/file/abc/" is
\* <<"file", "abc", "">>.
Paths == {<<"">>, <<"webhook">>, <<"webhook", "">>, <<"file", "">>, <<"file", "FID">>,
          <<"file", "FID", "">>, <<"file", "FID", "x">>, <<"setWebhook">>,
          <<"deleteWebhook">>, <<"info">>, <<"getWebhookInfo">>, <<"debug">>,
          <<"nonexistent">>}

JsonFlags == {Null, "true", "1"}

WebhookRequests ==
    [method : {"POST"}, path : {<<"webhook">>}, host : {RequestHost},
     json : {Null}, secretHeader : SecretHeaders, body : Bodies]

OtherRequests ==
    [method : Methods, path : Paths, host : {RequestHost},
     json : JsonFlags, secretHeader : {Null}, body : {NoBody}]

Requests == WebhookRequests \cup OtherRequests

(***************************************************************************)
(* The upstream platform's answers to one call.                            *)
(***************************************************************************)
FilePaths == {Undefined, "", "documents/file_1.pdf"}

Replies ==
    [kind : {"throw"}, status : {0}, ok : {FALSE},
     description : {"network failure"}, file_path : {Undefined}]
    \cup [kind : {"json"}, status : {400, 500}, ok : {FALSE},
          description : {"Bad Request"}, file_path : {Undefined}]
    \cup [kind : {"text"}, status : {200, 502}, ok : {FALSE},
          description : {Undefined}, file_path : {Undefined}]
    \cup [kind : {"json"}, status : {200}, ok : {FALSE},
          description : {"chat not found"}, file_path : {Undefined}]
    \cup [kind : {"json"}, status : {200}, ok : {TRUE},
          description : {Undefined}, file_path : FilePaths]

(***************************************************************************)
(* utils.ts                                                                *)
(***************************************************************************)
ApiBase == "https://api.telegram.org/bot"

FileBase == "https://api.telegram.org/file/bot"

ParseFallback == "Failed to parse error response"

\* The request telegramApi sends: POST with the JSON payload when there is
\* one, GET otherwise.
telegramApiRequest(method, token, payload) ==
    [url |-> <<ApiBase, token, "/", method>>,
     method |-> method,
     httpMethod |-> IF payload # <<>> THEN "POST" ELSE "GET",
     payload |-> payload]

ResOk(status) == status \in 200..299

Returned(result) == [threw |-> FALSE, message |-> <<>>, result |-> result]

Thrown(message) == [threw |-> TRUE, message |-> message, result |-> [file_path |-> Undefined]]

\* What telegramApi makes of the upstream answer: the result, or an Error
\* with its message.
\* The body of a reply is JSON text of an object ("json"), the JSON text
\* null ("null"), or not JSON ("text"); "throw" is a fetch that rejected.
\* Reading a property of null throws a TypeError.
telegramApi(reply) ==
    IF reply.kind = "throw" THEN Thrown(<<reply.description>>)
    ELSE IF ~ResOk(reply.status)
    THEN IF reply.kind = "null"
         THEN Thrown(<<"Cannot read properties of null (reading 'description')">>)
         ELSE LET description == IF reply.kind = "json" THEN reply.description
                                 ELSE ParseFallback
              IN Thrown(<<"Telegram API error (", ToString(reply.status), "): ",
                          description>>)
    ELSE IF reply.kind = "text" THEN Thrown(<<"Unexpected token in JSON">>)
    ELSE IF reply.kind = "null"
    THEN Thrown(<<"Cannot read properties of null (reading 'ok')">>)
    ELSE IF ~reply.ok THEN Thrown(<<"Telegram API error: ", reply.description>>)
    ELSE Returned([file_path |-> reply.file_path])

getFileInfoRequest(fileId, e) ==
    telegramApiRequest("getFile", e.BOT_TOKEN, <<[file_id |-> fileId]>>)

\* Variant: a request without the header is let through.
checkWebhookAuth_absentHeaderPasses(req, e) ==
    LET secretToken == OrElse(e.SECRET_TOKEN, "")
        token == req.secretHeader
    IN IF ~Truthy(secretToken) THEN TRUE
       ELSE token = secretToken \/ token = Null

\* Variant: the header is compared even when no secret is configured.
checkWebhookAuth_alwaysCompares(req, e) ==
    LET secretToken == OrElse(e.SECRET_TOKEN, "")
        token == req.secretHeader
    IN token = secretToken

checkWebhookAuth(req, e) ==
    LET secretToken == OrElse(e.SECRET_TOKEN, "")
        token == req.secretHeader
    IN IF ~Truthy(secretToken) THEN TRUE
       ELSE token = secretToken

sendMessageRequest(chatId, text, e, parseMode) ==
    telegramApiRequest("sendMessage", e.BOT_TOKEN,
                       <<[chat_id |-> chatId, text |-> text, parse_mode |-> parseMode]>>)

\* Variant: without the try/catch, the error of telegramApi propagates.
sendMessage_rethrows(reply) == telegramApi(reply)

\* sendMessage catches whatever telegramApi throws and returns normally.
sendMessage(reply) ==
    LET r == telegramApi(reply)
    IN IF r.threw THEN Returned([file_path |-> Undefined])
       ELSE Returned([file_path |-> Undefined])

jsonResponse(data, status) ==
    [status |-> status, kind |-> "json", body |-> <<data>>, location |-> <<>>,
     headers |-> [h \in {"Content-Type"} |-> "application/json"]]

(***************************************************************************)
(* What a handler does up to its next suspension point: it returns a       *)
(* response, waits for the request body, or waits for an upstream call.    *)
(***************************************************************************)
Done(resp) == [next |-> "done", response |-> <<resp>>, call |-> <<>>]

AwaitBody == [next |-> "body", response |-> <<>>, call |-> <<>>]

AwaitUpstream(call) == [next |-> "upstream", response |-> <<>>, call |-> <<call>>]

(***************************************************************************)
(* handlers.ts: handleWebhook                                              *)
(***************************************************************************)
\* file_size || 0
FileSizeOrZero(p) == IF p.file_size = NoSize THEN 0 ELSE p.file_size

\* Variant: the comparator with its operands exchanged sorts ascending.
ComparePhotos_ascending(a, b) == FileSizeOrZero(a) - FileSizeOrZero(b)

\* The comparator of photo.sort: negative when a goes before b.
ComparePhotos(a, b) == FileSizeOrZero(b) - FileSizeOrZero(a)

RECURSIVE InsertSorted(_, _)
InsertSorted(sorted, x) ==
    IF Len(sorted) = 0 THEN <<x>>
    ELSE IF ComparePhotos(Head(sorted), x) <= 0
         THEN <<Head(sorted)>> \o InsertSorted(Tail(sorted), x)
         ELSE <<x>> \o sorted

\* Array.prototype.sort with ComparePhotos: a stable sort, elements that
\* compare equal keep their order.
RECURSIVE SortPhotos(_)
SortPhotos(photo) ==
    IF Len(photo) = 0 THEN <<>>
    ELSE InsertSorted(SortPhotos(SubSeq(photo, 1, Len(photo) - 1)), photo[Len(photo)])

\* arr[0]
First(arr) == IF Len(arr) = 0 THEN <<>> ELSE <<arr[1]>>

\* Variant: the photo array is looked at before the other media.
SelectMedia_photoFirst(message) ==
    IF message.photo # <<>> /\ Len(message.photo[1]) > 0
    THEN First(SortPhotos(message.photo[1]))
    ELSE IF message.document # <<>> THEN message.document
    ELSE IF message.video # <<>> THEN message.video
    ELSE IF message.audio # <<>> THEN message.audio
    ELSE IF message.voice # <<>> THEN message.voice
    ELSE <<>>

\* document || video || audio || voice || (photo && photo.sort(...)[0])
SelectMedia(message) ==
    IF message.document # <<>> THEN message.document
    ELSE IF message.video # <<>> THEN message.video
    ELSE IF message.audio # <<>> THEN message.audio
    ELSE IF message.voice # <<>> THEN message.voice
    ELSE IF message.photo # <<>> THEN First(SortPhotos(message.photo[1]))
    ELSE <<>>

DefaultFileName == "telegram_file"

\* 'file_name' in media && media.file_name ? media.file_name : 'telegram_file'
FileNameOf(media) ==
    IF "file_name" \in DOMAIN media /\ Truthy(media.file_name) THEN media.file_name
    ELSE DefaultFileName

\* Variant: the configured WORKER_URL is not consulted.
WorkerHost_requestHostOnly(req, e) == req.host

\* env.WORKER_URL || new URL(request.url).host
WorkerHost(req, e) == OrElse(e.WORKER_URL, req.host)

PublicFileUrl(worker_host, file_id) == <<"https://", worker_host, "/file/", file_id>>

FileReceivedText(file_name, public_file_url) ==
    <<"file received: ", file_name, "\ndownload link: ">> \o public_file_url

helpText == <<"help: send a file; endpoints /setWebhook /deleteWebhook /info /debug">>

Unauthorized ==
    jsonResponse([status |-> "error", message |-> <<"Unauthorized webhook request">>], 403)

WebhookInternalError ==
    jsonResponse([status |-> "error", message |-> <<"Internal error processing webhook.">>], 500)

NoMessageAck ==
    jsonResponse([status |-> "ok",
                  message |-> <<"Update received, but no message to process.">>], 200)

WebhookSuccess == jsonResponse([status |-> "success"], 200)

\* handleWebhook up to its first suspension: the authentication check, then
\* the body read is started.
handleWebhook(req, e) ==
    IF ~checkWebhookAuth(req, e) THEN Done(Unauthorized)
    ELSE AwaitBody

\* The branch of handleWebhook for a message with media: the proxy link is
\* sent to the chat of the message.
MediaReply(message, media, req, e) ==
    LET file_id == media.file_id
        file_name == FileNameOf(media)
        worker_host == WorkerHost(req, e)
        public_file_url == PublicFileUrl(worker_host, file_id)
    IN IF message.chat = <<>> THEN Done(WebhookInternalError)
       ELSE AwaitUpstream(sendMessageRequest(message.chat[1].id,
                FileReceivedText(file_name, public_file_url), e, "Markdown"))

\* Variant: a message without media is acknowledged without a reply.
HelpReply_silent(message, e) ==
    IF message.chat = <<>> THEN Done(WebhookInternalError)
    ELSE Done(WebhookSuccess)

\* The branch of handleWebhook for a message without media: the help text.
HelpReply(message, e) ==
    IF message.chat = <<>> THEN Done(WebhookInternalError)
    ELSE AwaitUpstream(sendMessageRequest(message.chat[1].id, helpText, e, "Markdown"))

\* Variant: an update without message is not told apart from a message
\* without media.
handleWebhookBody_noMessageCheck(req, e) ==
    IF req.body.kind # "object" THEN Done(WebhookInternalError)
    ELSE IF req.body.message = <<>>
    THEN AwaitUpstream(sendMessageRequest(Undefined, helpText, e, "Markdown"))
    ELSE LET message == req.body.message[1]
             media == SelectMedia(message)
         IN IF media # <<>> /\ Truthy(media[1].file_id)
            THEN MediaReply(message, media[1], req, e)
            ELSE HelpReply(message, e)

\* handleWebhook from the end of the body read to the sendMessage call.  A
\* body that is not JSON makes request.json() throw, the value null makes
\* body.message throw, a message without chat makes message.chat.id throw:
\* each lands in the catch block.
handleWebhookBody(req, e) ==
    IF req.body.kind # "object" THEN Done(WebhookInternalError)
    ELSE IF req.body.message = <<>> THEN Done(NoMessageAck)
    ELSE LET message == req.body.message[1]
             media == SelectMedia(message)
         IN IF media # <<>> /\ Truthy(media[1].file_id)
            THEN MediaReply(message, media[1], req, e)
            ELSE HelpReply(message, e)

\* Variant: the outcome of the upstream call decides the acknowledgment.
handleWebhookSent_reportsFailure(reply) ==
    IF telegramApi(reply).threw THEN Done(WebhookInternalError)
    ELSE Done(WebhookSuccess)

\* handleWebhook once the awaited sendMessage has completed.
handleWebhookSent(reply) ==
    IF sendMessage(reply).threw THEN Done(WebhookInternalError)
    ELSE Done(WebhookSuccess)

(***************************************************************************)
(* handlers.ts: handleFileProxy, setWebhook, deleteWebhook,                *)
(* getWebhookInfo, debugEnv                                                *)
(***************************************************************************)
\* Variant: the error message names the upstream URL that failed.
ProxyFailed_namesUrl(message) ==
    jsonResponse([status |-> "error",
                  message |-> <<"Proxy failed: ">> \o message
                              \o <<" (", ApiBase, env.BOT_TOKEN, "/getFile)">>], 500)

ProxyFailed(message) ==
    jsonResponse([status |-> "error", message |-> <<"Proxy failed: ">> \o message], 500)

\* Response.redirect(url, 302)
Redirect(url, status) ==
    [status |-> status, kind |-> "redirect", body |-> <<>>, location |-> <<url>>,
     headers |-> [h \in {} |-> ""]]

handleFileProxy(req, e, p) ==
    IF ~Truthy(p.file_id)
    THEN Done(jsonResponse([status |-> "error", message |-> <<"File ID is missing.">>], 400))
    ELSE AwaitUpstream(getFileInfoRequest(p.file_id, e))

\* Variant: the file_path of the result is used without being looked at.
handleFileProxyResolved_noPathCheck(req, e, reply) ==
    LET r == telegramApi(reply)
        file_info == r.result
        returnJson == req.json = "true"
    IN IF r.threw THEN Done(ProxyFailed(r.message))
       ELSE LET file_url == <<FileBase, e.BOT_TOKEN, "/", file_info.file_path>>
            IN IF returnJson
               THEN Done(jsonResponse([status |-> "success",
                                       file_info |-> [file_path |-> file_info.file_path,
                                                      download_url |-> file_url]], 200))
               ELSE Done(Redirect(file_url, 302))

\* Variant: the JSON mode hands out the bare file_path.
handleFileProxyResolved_jsonPathOnly(req, e, reply) ==
    LET r == telegramApi(reply)
        file_info == r.result
        returnJson == req.json = "true"
    IN IF r.threw THEN Done(ProxyFailed(r.message))
       ELSE IF ~Truthy(file_info.file_path)
       THEN Done(ProxyFailed(<<"file_path not available in file info.">>))
       ELSE LET file_url == <<FileBase, e.BOT_TOKEN, "/", file_info.file_path>>
            IN IF returnJson
               THEN Done(jsonResponse([status |-> "success",
                                       file_info |-> [file_path |-> file_info.file_path,
                                                      download_url |-> <<file_info.file_path>>]],
                                      200))
               ELSE Done(Redirect(file_url, 302))

\* Variant: the download URL is built on the base of the API methods.
handleFileProxyResolved_apiBase(req, e, reply) ==
    LET r == telegramApi(reply)
        file_info == r.result
        returnJson == req.json = "true"
    IN IF r.threw THEN Done(ProxyFailed(r.message))
       ELSE IF ~Truthy(file_info.file_path)
       THEN Done(ProxyFailed(<<"file_path not available in file info.">>))
       ELSE LET file_url == <<ApiBase, e.BOT_TOKEN, "/", file_info.file_path>>
            IN IF returnJson
               THEN Done(jsonResponse([status |-> "success",
                                       file_info |-> [file_path |-> file_info.file_path,
                                                      download_url |-> file_url]], 200))
               ELSE Done(Redirect(file_url, 302))

handleFileProxyResolved(req, e, reply) ==
    LET r == telegramApi(reply)
        file_info == r.result
        returnJson == req.json = "true"
    IN IF r.threw THEN Done(ProxyFailed(r.message))
       ELSE IF ~Truthy(file_info.file_path)
       THEN Done(ProxyFailed(<<"file_path not available in file info.">>))
       ELSE LET file_url == <<FileBase, e.BOT_TOKEN, "/", file_info.file_path>>
            IN IF returnJson
               THEN Done(jsonResponse([status |-> "success",
                                       file_info |-> [file_path |-> file_info.file_path,
                                                      download_url |-> file_url]], 200))
               ELSE Done(Redirect(file_url, 302))

\* Variant: the upstream's failure is passed on under its own status word.
UpstreamError_statusFailed(message) ==
    jsonResponse([status |-> "failed", message |-> message], 500)

UpstreamError(message) == jsonResponse([status |-> "error", message |-> message], 500)

\* Variant: SECRET_TOKEN is passed on as it is, without the || ''.
setWebhook_rawSecret(req, e) ==
    LET webhookUrl == <<"https://", WorkerHost(req, e), "/webhook">>
    IN AwaitUpstream(telegramApiRequest("setWebhook", e.BOT_TOKEN,
           <<[url |-> webhookUrl, secret_token |-> e.SECRET_TOKEN]>>))

\* Variant: the webhook is registered without a secret.
setWebhook_noSecret(req, e) ==
    LET webhookUrl == <<"https://", WorkerHost(req, e), "/webhook">>
    IN AwaitUpstream(telegramApiRequest("setWebhook", e.BOT_TOKEN,
           <<[url |-> webhookUrl, secret_token |-> ""]>>))

setWebhook(req, e) ==
    LET webhookUrl == <<"https://", WorkerHost(req, e), "/webhook">>
    IN AwaitUpstream(telegramApiRequest("setWebhook", e.BOT_TOKEN,
           <<[url |-> webhookUrl, secret_token |-> OrElse(e.SECRET_TOKEN, "")]>>))

\* Variant: a failed call is issued once more.
setWebhookDone_retries(req, e, reply) ==
    LET r == telegramApi(reply)
        webhookUrl == <<"https://", WorkerHost(req, e), "/webhook">>
    IN IF r.threw THEN setWebhook(req, e)
       ELSE Done(jsonResponse([status |-> "success",
                               message |-> <<"Webhook set successfully to: ">> \o webhookUrl],
                              200))

setWebhookDone(req, e, reply) ==
    LET r == telegramApi(reply)
        webhookUrl == <<"https://", WorkerHost(req, e), "/webhook">>
    IN IF r.threw THEN Done(UpstreamError(r.message))
       ELSE Done(jsonResponse([status |-> "success",
                               message |-> <<"Webhook set successfully to: ">> \o webhookUrl],
                              200))

\* Variant: the webhook is set again to the worker's URL.
deleteWebhook_keepsUrl(req, e) ==
    AwaitUpstream(telegramApiRequest("setWebhook", e.BOT_TOKEN,
        <<[url |-> <<"https://", WorkerHost(req, e), "/webhook">>]>>))

deleteWebhook(req, e) ==
    AwaitUpstream(telegramApiRequest("setWebhook", e.BOT_TOKEN, <<[url |-> <<>>]>>))

\* Variant: after a failed call the handler awaits a promise that never
\* settles.
deleteWebhookDone_neverSettles(reply) ==
    LET r == telegramApi(reply)
    IN IF r.threw THEN [next |-> "stalled", response |-> <<>>, call |-> <<>>]
       ELSE Done(jsonResponse([status |-> "success",
                               message |-> <<"Webhook deleted successfully.">>], 200))

deleteWebhookDone(reply) ==
    LET r == telegramApi(reply)
    IN IF r.threw THEN Done(UpstreamError(r.message))
       ELSE Done(jsonResponse([status |-> "success",
                               message |-> <<"Webhook deleted successfully.">>], 200))

getWebhookInfo(req, e) ==
    AwaitUpstream(telegramApiRequest("getWebhookInfo", e.BOT_TOKEN, <<>>))

getWebhookInfoDone(reply) ==
    LET r == telegramApi(reply)
    IN IF r.threw THEN Done(UpstreamError(r.message))
       ELSE Done(jsonResponse([status |-> "success", webhook_info |-> r.result], 200))

\* Variant: the values of the secrets are reported as they are.
debugEnv_rawValues(req, e) ==
    Done(jsonResponse(
        [status |-> "success",
         message |-> <<"Telegram File Proxy Worker is running.">>,
         env |-> [bot_token |-> e.BOT_TOKEN,
                  secret_token |-> e.SECRET_TOKEN,
                  worker_url |-> IF Truthy(e.WORKER_URL) THEN <<e.WORKER_URL>>
                                 ELSE <<"Not Set (using request host: ",
                                        WorkerHost(req, e), ")">>]], 200))

debugEnv(req, e) ==
    Done(jsonResponse(
        [status |-> "success",
         message |-> <<"Telegram File Proxy Worker is running.">>,
         env |-> [bot_token |-> IF Truthy(e.BOT_TOKEN) THEN "[REDACTED]" ELSE "Not Set",
                  secret_token |-> IF Truthy(e.SECRET_TOKEN) THEN "[REDACTED]" ELSE "Not Set",
                  worker_url |-> IF Truthy(e.WORKER_URL) THEN <<e.WORKER_URL>>
                                 ELSE <<"Not Set (using request host: ",
                                        WorkerHost(req, e), ")">>]], 200))

(***************************************************************************)
(* index.ts: the route table and the fetch entry point                     *)
(***************************************************************************)
NoParams == [file_id |-> Undefined]

\* /^\/(name1|name2|...)\/?$/
MatchNames(names, path) ==
    IF \E n \in names : path = <<n>> \/ path = <<n, "">> THEN <<NoParams>> ELSE <<>>

\* /^\/file\/(?<file_id>[^/]+)\/?$/
MatchFile(path) ==
    IF /\ Len(path) \in {2, 3}
       /\ path[1] = "file"
       /\ path[2] # ""
       /\ Len(path) = 3 => path[3] = ""
    THEN <<[file_id |-> path[2]]>>
    ELSE <<>>

\* url.pathname.match(pattern): no match, or the named groups of the match.
Match(pattern, path) ==
    CASE pattern = "webhook" -> MatchNames({"webhook"}, path)
      [] pattern = "file" -> MatchFile(path)
      [] pattern = "setWebhook" -> MatchNames({"setWebhook"}, path)
      [] pattern = "deleteWebhook" -> MatchNames({"deleteWebhook"}, path)
      [] pattern = "info" -> MatchNames({"info", "getWebhookInfo"}, path)
      [] pattern = "debug" -> MatchNames({"debug"}, path)

routes ==
    <<[method |-> "POST", pattern |-> "webhook", handler |-> "handleWebhook"],
      [method |-> "GET", pattern |-> "file", handler |-> "handleFileProxy"],
      [method |-> "GET", pattern |-> "setWebhook", handler |-> "setWebhook"],
      [method |-> "GET", pattern |-> "deleteWebhook", handler |-> "deleteWebhook"],
      [method |-> "GET", pattern |-> "info", handler |-> "getWebhookInfo"],
      [method |-> "GET", pattern |-> "debug", handler |-> "debugEnv"]>>

RouteMatches(i, method, path) ==
    method = routes[i].method /\ Match(routes[i].pattern, path) # <<>>

\* Variant: the method of the request is not compared with the route's.
MatchRoute_anyMethod(method, path) ==
    IF \E i \in 1..Len(routes) : Match(routes[i].pattern, path) # <<>>
    THEN LET i == CHOOSE k \in 1..Len(routes) :
                     /\ Match(routes[k].pattern, path) # <<>>
                     /\ \A j \in 1..(k - 1) : Match(routes[j].pattern, path) = <<>>
         IN <<[handler |-> routes[i].handler,
               params |-> Match(routes[i].pattern, path)[1]]>>
    ELSE <<>>

\* The loop over the routes: the first route whose method and pattern match.
MatchRoute(method, path) ==
    IF \E i \in 1..Len(routes) : RouteMatches(i, method, path)
    THEN LET i == CHOOSE k \in 1..Len(routes) :
                     /\ RouteMatches(k, method, path)
                     /\ \A j \in 1..(k - 1) : ~RouteMatches(j, method, path)
         IN <<[handler |-> routes[i].handler,
               params |-> Match(routes[i].pattern, path)[1]]>>
    ELSE <<>>

corsHeaders ==
    [h \in {"Access-Control-Allow-Origin", "Access-Control-Allow-Methods",
            "Access-Control-Allow-Headers"} |->
        CASE h = "Access-Control-Allow-Origin" -> "*"
          [] h = "Access-Control-Allow-Methods" -> "GET, POST, OPTIONS"
          [] h = "Access-Control-Allow-Headers" ->
                 "Content-Type, Authorization, X-Telegram-Bot-API-Secret-Token"]

addCors(resp) ==
    [resp EXCEPT !.headers =
        [h \in DOMAIN resp.headers \cup DOMAIN corsHeaders |->
            IF h \in DOMAIN corsHeaders THEN corsHeaders[h] ELSE resp.headers[h]]]

ConfigError ==
    jsonResponse([status |-> "error",
                  message |-> <<"Configuration error: ",
                                "CRITICAL: BOT_TOKEN environment variable is not set.">>],
                 500)

\* The response of the catch block around the route loop.
UnhandledError(message) ==
    jsonResponse([status |-> "error", message |-> <<"Unhandled error: ">> \o message], 500)

\* Variant: the preflight is answered like an unmatched route.
Preflight_asLiveness ==
    [status |-> 200, kind |-> "json",
     body |-> <<[status |-> "success",
                 message |-> <<"Telegram File Proxy Worker is running. See /debug for status.">>]>>,
     location |-> <<>>,
     headers |-> [h \in {"Content-Type"} \cup DOMAIN corsHeaders |->
                    IF h = "Content-Type" THEN "application/json" ELSE corsHeaders[h]]]

\* new Response(null, { headers: corsHeaders })
Preflight ==
    [status |-> 200, kind |-> "empty", body |-> <<>>, location |-> <<>>,
     headers |-> corsHeaders]

Liveness ==
    jsonResponse([status |-> "success",
                  message |-> <<"Telegram File Proxy Worker is running. See /debug for status.">>],
                 200)

\* response = await handler(request, env, params), up to the first suspension.
Invoke(h, req, e, p) ==
    CASE h = "handleWebhook" -> handleWebhook(req, e)
      [] h = "handleFileProxy" -> handleFileProxy(req, e, p)
      [] h = "setWebhook" -> setWebhook(req, e)
      [] h = "deleteWebhook" -> deleteWebhook(req, e)
      [] h = "getWebhookInfo" -> getWebhookInfo(req, e)
      [] h = "debugEnv" -> debugEnv(req, e)

\* The handler's continuation when its upstream call has completed.
Resume(h, req, e, reply) ==
    CASE h = "handleWebhook" -> handleWebhookSent(reply)
      [] h = "handleFileProxy" -> handleFileProxyResolved(req, e, reply)
      [] h = "setWebhook" -> setWebhookDone(req, e, reply)
      [] h = "deleteWebhook" -> deleteWebhookDone(reply)
      [] h = "getWebhookInfo" -> getWebhookInfoDone(reply)

\* The state after a step of the matched handler; a handler's response
\* goes through addCors.
Proceed(step) ==
    /\ pc' = step.next
    /\ calls' = calls \o step.call
    /\ response' = IF step.response = <<>> THEN <<>> ELSE <<addCors(step.response[1])>>

(***************************************************************************)
(* The state machine                                                       *)
(***************************************************************************)
\* The requests that the worker handles at the same time.
MaxConcurrent == 2

Slots == 1..MaxConcurrent

\* The context of one request: what the variables request .. response hold
\* when one request is handled at a time.
IdleSlot ==
    [request |-> <<>>, pc |-> "idle", handler |-> "none", params |-> NoParams,
     bodyRead |-> FALSE, calls |-> <<>>, replied |-> <<>>, response |-> <<>>]

\* One call of telegramApi on its own: the upstream's answer and, once the
\* call has settled, what telegramApi made of it.
NoApiCall == [reply |-> <<>>, outcome |-> <<>>]

Init ==
    /\ env \in Envs
    /\ request = <<>>
    /\ pc = "idle"
    /\ handler = "none"
    /\ params = NoParams
    /\ bodyRead = FALSE
    /\ calls = <<>>
    /\ replied = <<>>
    /\ response = <<>>
    /\ previous = <<>>
    /\ inflight = [s \in Slots |-> IdleSlot]
    /\ api = NoApiCall

\* A request arrives at the worker.
Receive(r) ==
    /\ pc = "idle"
    /\ request' = <<r>>
    /\ pc' = "received"
    /\ UNCHANGED <<env, handler, params, bodyRead, calls, replied, response, previous, inflight, api>>

\* Variant: BOT_TOKEN is looked at only when no route matches.
fetch_routesFirst ==
    /\ pc = "received"
    /\ LET req == request[1]
           route == MatchRoute(req.method, req.path)
       IN IF req.method = "OPTIONS"
          THEN /\ pc' = "done"
               /\ response' = <<Preflight>>
               /\ UNCHANGED <<handler, params, bodyRead, calls>>
          ELSE IF route = <<>>
          THEN /\ pc' = "done"
               /\ response' = IF ~Truthy(env.BOT_TOKEN) THEN <<ConfigError>>
                              ELSE <<addCors(Liveness)>>
               /\ UNCHANGED <<handler, params, bodyRead, calls>>
          ELSE LET step == Invoke(route[1].handler, req, env, route[1].params)
               IN /\ handler' = route[1].handler
                  /\ params' = route[1].params
                  /\ bodyRead' = (step.next = "body")
                  /\ Proceed(step)
    /\ UNCHANGED <<env, request, replied, previous, inflight, api>>

\* Variant: the preflight is answered before BOT_TOKEN is looked at.
fetch_preflightFirst ==
    /\ pc = "received"
    /\ LET req == request[1]
           route == MatchRoute(req.method, req.path)
       IN IF req.method = "OPTIONS"
          THEN /\ pc' = "done"
               /\ response' = <<Preflight>>
               /\ UNCHANGED <<handler, params, bodyRead, calls>>
          ELSE IF ~Truthy(env.BOT_TOKEN)
          THEN /\ pc' = "done"
               /\ response' = <<ConfigError>>
               /\ UNCHANGED <<handler, params, bodyRead, calls>>
          ELSE IF route = <<>>
          THEN /\ pc' = "done"
               /\ response' = <<addCors(Liveness)>>
               /\ UNCHANGED <<handler, params, bodyRead, calls>>
          ELSE LET step == Invoke(route[1].handler, req, env, route[1].params)
               IN /\ handler' = route[1].handler
                  /\ params' = route[1].params
                  /\ bodyRead' = (step.next = "body")
                  /\ Proceed(step)
    /\ UNCHANGED <<env, request, replied, previous, inflight, api>>

\* fetch, from its entry to the first suspension of the matched handler.
fetch ==
    /\ pc = "received"
    /\ LET req == request[1]
           route == MatchRoute(req.method, req.path)
       IN IF ~Truthy(env.BOT_TOKEN)
          THEN /\ pc' = "done"
               /\ response' = <<ConfigError>>
               /\ UNCHANGED <<handler, params, bodyRead, calls>>
          ELSE IF req.method = "OPTIONS"
          THEN /\ pc' = "done"
               /\ response' = <<Preflight>>
               /\ UNCHANGED <<handler, params, bodyRead, calls>>
          ELSE IF route = <<>>
          THEN /\ pc' = "done"
               /\ response' = <<addCors(Liveness)>>
               /\ UNCHANGED <<handler, params, bodyRead, calls>>
          ELSE LET step == Invoke(route[1].handler, req, env, route[1].params)
               IN /\ handler' = route[1].handler
                  /\ params' = route[1].params
                  /\ bodyRead' = (step.next = "body")
                  /\ Proceed(step)
    /\ UNCHANGED <<env, request, replied, previous, inflight, api>>

\* request.json() settles and handleWebhook runs on to its next suspension.
BodyRead ==
    /\ pc = "body"
    /\ Proceed(handleWebhookBody(request[1], env))
    /\ UNCHANGED <<env, request, handler, params, bodyRead, replied, previous, inflight, api>>

\* The upstream call settles with reply and the handler runs to its end.
UpstreamReply(reply) ==
    /\ pc = "upstream"
    /\ Proceed(Resume(handler, request[1], env, reply))
    /\ replied' = Append(replied, reply)
    /\ UNCHANGED <<env, request, handler, params, bodyRead, previous, inflight, api>>

\* The response is handed to the runtime and the request's context is dropped.
Deliver ==
    /\ pc = "done"
    /\ pc' = "idle"
    /\ request' = <<>>
    /\ handler' = "none"
    /\ params' = NoParams
    /\ bodyRead' = FALSE
    /\ calls' = <<>>
    /\ replied' = <<>>
    /\ response' = <<>>
    /\ UNCHANGED <<env, previous, inflight, api>>

Next ==
    \/ \E r \in Requests : Receive(r)
    \/ fetch
    \/ BodyRead
    \/ \E reply \in Replies : UpstreamReply(reply)
    \/ Deliver

Spec == Init /\ [][Next]_vars

(***************************************************************************)
(* Two requests in succession: the exchange of the request served before   *)
(* the current one is kept in previous, for the properties that relate two *)
(* requests.                                                               *)
(***************************************************************************)
FileRequests ==
    [method : {"GET"}, path : {<<"file", "FID">>, <<"file", "FID2">>},
     host : {RequestHost}, json : {Null, "true"}, secretHeader : {Null},
     body : {NoBody}]

\* As Deliver, and the exchange that ends is remembered.
DeliverRemembered ==
    /\ pc = "done"
    /\ previous' = <<[request |-> request[1], calls |-> calls, replied |-> replied,
                      response |-> response[1]]>>
    /\ pc' = "idle"
    /\ request' = <<>>
    /\ handler' = "none"
    /\ params' = NoParams
    /\ bodyRead' = FALSE
    /\ calls' = <<>>
    /\ replied' = <<>>
    /\ response' = <<>>
    /\ UNCHANGED <<env, inflight, api>>

NextPairs ==
    \/ \E r \in FileRequests : Receive(r)
    \/ fetch
    \/ \E reply \in Replies : UpstreamReply(reply)
    \/ DeliverRemembered

SpecPairs == Init /\ [][NextPairs]_vars

(***************************************************************************)
(* Properties of POST /webhook                                             *)
(***************************************************************************)
Is2xx(status) == status \in 200..299

\* The body is an Update object whose message, if any, has a chat.
WellFormedUpdate(body) ==
    body.kind = "object" /\ (body.message # <<>> => body.message[1].chat # <<>>)

\* C1: with a SECRET_TOKEN configured and the secret header absent or
\* different from it, handleWebhook answers 403, the body read is never
\* started and no upstream call is issued.
C1_UnauthorizedRejected ==
    (/\ handler = "handleWebhook"
     /\ Truthy(env.SECRET_TOKEN)
     /\ request[1].secretHeader # env.SECRET_TOKEN)
    => /\ pc = "done"
       /\ response[1].status = 403
       /\ bodyRead = FALSE
       /\ calls = <<>>

C1_Witness ==
    /\ handler = "handleWebhook"
    /\ env.SECRET_TOKEN = "s3cret"
    /\ request[1].secretHeader = Null
    /\ pc = "done"
    /\ response[1].status = 403

\* C2 as stated: once the authentication check has passed, handleWebhook
\* answers 2xx for every request body and every upstream outcome.
C2_AlwaysAcknowledged ==
    (handler = "handleWebhook" /\ bodyRead /\ pc = "done")
    => Is2xx(response[1].status)

\* C2 amended: once the authentication check has passed, handleWebhook
\* answers 2xx for every upstream outcome exactly when the body is an Update
\* object whose message, if any, has a chat; any other body is answered 500.
C2_AcknowledgedWhenWellFormed ==
    (handler = "handleWebhook" /\ bodyRead /\ pc = "done")
    => /\ WellFormedUpdate(request[1].body) => Is2xx(response[1].status)
       /\ ~WellFormedUpdate(request[1].body) => response[1].status = 500 /\ calls = <<>>

C2_Witness ==
    /\ handler = "handleWebhook"
    /\ bodyRead
    /\ pc = "done"
    /\ WellFormedUpdate(request[1].body)
    /\ replied # <<>>
    /\ replied[1].kind = "throw"
    /\ Is2xx(response[1].status)

\* C3: the sendMessage of handleWebhook is awaited and its failure is
\* swallowed: no response exists while the call is pending, and whatever the
\* upstream answered the response is 200 {status: "success"}.
C3_NotificationSwallowed ==
    handler = "handleWebhook"
    => /\ pc = "upstream" => response = <<>> /\ replied = <<>>
       /\ replied # <<>> => /\ pc = "done"
                            /\ Len(calls) = 1
                            /\ calls[1].method = "sendMessage"
                            /\ Len(replied) = 1
                            /\ response[1].status = 200
                            /\ response[1].body = <<[status |-> "success"]>>

C3_Witness ==
    /\ handler = "handleWebhook"
    /\ replied # <<>>
    /\ replied[1].kind = "json"
    /\ replied[1].status = 200
    /\ replied[1].ok = FALSE
    /\ response[1].status = 200

\* C4: without a SECRET_TOKEN (unset or empty) every webhook request passes
\* the authentication check whatever its secret header; none is answered 403.
C4_NoSecretNoCheck ==
    (handler = "handleWebhook" /\ ~Truthy(env.SECRET_TOKEN))
    => /\ bodyRead
       /\ response # <<>> => response[1].status # 403

C4_Witness ==
    /\ handler = "handleWebhook"
    /\ env.SECRET_TOKEN = Undefined
    /\ request[1].secretHeader = "wrong"
    /\ pc = "done"
    /\ response[1].status = 200

(***************************************************************************)
(* Properties of the media selection and of the reply of handleWebhook     *)
(***************************************************************************)
\* The text of the message that handleWebhook sent.
SentText == calls[1].payload[1].text

HasLink(text) == Contains(text, "/file/")

\* The file_id in the proxy link of text: what follows "/file/".
LinkFileId(text) == text[(CHOOSE i \in 1..Len(text) : text[i] = "/file/") + 1]

Priority == <<"document", "video", "audio", "voice", "photo">>

\* handleWebhook has read the body, found a message with a chat in it and
\* has run up to or past its sendMessage call.
MessageProcessed ==
    /\ handler = "handleWebhook"
    /\ bodyRead
    /\ pc \in {"upstream", "done"}
    /\ request[1].body.kind = "object"
    /\ request[1].body.message # <<>>
    /\ request[1].body.message[1].chat # <<>>

ReceivedMessage == request[1].body.message[1]

OnlyPhoto(m) ==
    /\ m.document = <<>> /\ m.video = <<>> /\ m.audio = <<>> /\ m.voice = <<>>
    /\ m.photo # <<>>
    /\ Len(m.photo[1]) > 0

NoMedia(m) ==
    /\ m.document = <<>> /\ m.video = <<>> /\ m.audio = <<>> /\ m.voice = <<>>
    /\ m.photo = <<>> \/ Len(m.photo[1]) = 0

\* C5: the file_id of the proxy link is that of the first present field in
\* the order document, video, audio, voice, photo; a present field of higher
\* priority with a file_id always yields the link, whatever else is present.
C5_MediaPriority ==
    MessageProcessed
    => LET m == ReceivedMessage
       IN /\ HasLink(SentText)
             => \E i \in 1..Len(Priority) :
                   /\ m[Priority[i]] # <<>>
                   /\ \A j \in 1..(i - 1) : m[Priority[j]] = <<>>
                   /\ IF Priority[i] = "photo"
                      THEN \E k \in 1..Len(m.photo[1]) :
                              m.photo[1][k].file_id = LinkFileId(SentText)
                      ELSE m[Priority[i]][1].file_id = LinkFileId(SentText)
          /\ \A i \in 1..4 :
                (/\ m[Priority[i]] # <<>>
                 /\ \A j \in 1..(i - 1) : m[Priority[j]] = <<>>
                 /\ Truthy(m[Priority[i]][1].file_id))
                => HasLink(SentText) /\ LinkFileId(SentText) = m[Priority[i]][1].file_id

C5_Witness ==
    /\ MessageProcessed
    /\ ReceivedMessage.document # <<>>
    /\ ReceivedMessage.photo = <<SamplePhotos>>
    /\ HasLink(SentText)
    /\ LinkFileId(SentText) = "DOC"

\* C6: when the only media is a photo array whose elements all carry a
\* file_size, the file_id of the link is that of an element of maximal
\* file_size, wherever it stands in the array.
C6_LargestPhoto ==
    (/\ MessageProcessed
     /\ OnlyPhoto(ReceivedMessage)
     /\ \A k \in 1..Len(ReceivedMessage.photo[1]) :
           ReceivedMessage.photo[1][k].file_size # NoSize)
    => LET photo == ReceivedMessage.photo[1]
       IN /\ HasLink(SentText)
          /\ \E k \in 1..Len(photo) :
                /\ photo[k].file_id = LinkFileId(SentText)
                /\ \A j \in 1..Len(photo) : photo[j].file_size <= photo[k].file_size

C6_Witness ==
    /\ MessageProcessed
    /\ OnlyPhoto(ReceivedMessage)
    /\ Len(ReceivedMessage.photo[1]) = 3
    /\ ReceivedMessage.photo[1][1].file_size = 100
    /\ ReceivedMessage.photo[1][2].file_size = 500
    /\ ReceivedMessage.photo[1][3].file_size = 300
    /\ LinkFileId(SentText) = "PH2"

\* C7: when the only media is a photo array none of whose elements carries
\* a file_size, the file_id of the link is that of the last element.
C7_FallbackToLastPhoto ==
    (/\ MessageProcessed
     /\ OnlyPhoto(ReceivedMessage)
     /\ \A k \in 1..Len(ReceivedMessage.photo[1]) :
           ReceivedMessage.photo[1][k].file_size = NoSize)
    => LET photo == ReceivedMessage.photo[1]
       IN /\ HasLink(SentText)
          /\ LinkFileId(SentText) = photo[Len(photo)].file_id

\* C8: for a message without media exactly one message is sent, the help
\* text, to the chat of the message, and it carries no proxy link.
C8_HelpTextOnly ==
    (MessageProcessed /\ NoMedia(ReceivedMessage))
    => /\ Len(calls) = 1
       /\ calls[1].method = "sendMessage"
       /\ calls[1].payload[1].chat_id = ReceivedMessage.chat[1].id
       /\ SentText = <<"help: send a file; endpoints /setWebhook /deleteWebhook /info /debug">>
       /\ ~HasLink(SentText)

C8_Witness ==
    /\ MessageProcessed
    /\ NoMedia(ReceivedMessage)
    /\ ReceivedMessage.photo = <<<<>>>>
    /\ pc = "done"
    /\ Len(calls) = 1
    /\ ~HasLink(SentText)

\* C9: an update without message is acknowledged with a 2xx response and
\* nothing else happens: no upstream call is ever issued for it.
C9_NoMessageNoAction ==
    (/\ handler = "handleWebhook"
     /\ bodyRead
     /\ request[1].body.kind = "object"
     /\ request[1].body.message = <<>>)
    => /\ calls = <<>>
       /\ pc \in {"body", "done"}
       /\ pc = "done" => Is2xx(response[1].status)

C9_Witness ==
    /\ handler = "handleWebhook"
    /\ bodyRead
    /\ request[1].body.kind = "object"
    /\ request[1].body.message = <<>>
    /\ pc = "done"
    /\ response[1].status = 200
    /\ calls = <<>>

\* C10: when media is found, the message sent to message.chat.id ends with
\* the proxy URL https://{host}/file/{file_id}, host being WORKER_URL when
\* configured and the host of the request otherwise, and contains the
\* file_name of the media or the placeholder.
C10_ProxyLink ==
    (/\ MessageProcessed
     /\ SelectMedia(ReceivedMessage) # <<>>
     /\ Truthy(SelectMedia(ReceivedMessage)[1].file_id))
    => LET media == SelectMedia(ReceivedMessage)[1]
           host == IF env.WORKER_URL \in {Undefined, ""} THEN request[1].host
                   ELSE env.WORKER_URL
           name == IF "file_name" \in DOMAIN media /\ media.file_name \notin {Undefined, ""}
                   THEN media.file_name ELSE "telegram_file"
           text == SentText
       IN /\ Len(calls) = 1
          /\ calls[1].method = "sendMessage"
          /\ calls[1].payload[1].chat_id = ReceivedMessage.chat[1].id
          /\ Len(text) > 4
          /\ SubSeq(text, Len(text) - 3, Len(text)) = <<"https://", host, "/file/", media.file_id>>
          /\ Contains(SubSeq(text, 1, Len(text) - 4), name)

C10_Witness ==
    /\ MessageProcessed
    /\ env.WORKER_URL = "files.example.com"
    /\ ReceivedMessage.document = <<[file_id |-> "DOC", file_name |-> Undefined]>>
    /\ ContainsSeq(SentText, <<"https://", "files.example.com", "/file/", "DOC">>)
    /\ Contains(SentText, "telegram_file")

(***************************************************************************)
(* Properties of GET /file/{file_id}                                       *)
(***************************************************************************)
\* The upstream answered the getFile call with ok: true and a file_path.
GetFileSucceeded(reply) ==
    /\ reply.kind = "json"
    /\ reply.status \in 200..299
    /\ reply.ok
    /\ reply.file_path \notin {Undefined, ""}

\* handleFileProxy has answered the request.
FileProxyDone == handler = "handleFileProxy" /\ pc = "done"

\* C11: when getFile succeeds with a file_path, GET /file/{file_id} without
\* query string is answered 302 with Location
\* https://api.telegram.org/file/bot{BOT_TOKEN}/{file_path}, file_path being
\* the one that the getFile call for that file_id resolved.
C11_RedirectToDownloadUrl ==
    (/\ FileProxyDone
     /\ request[1].json = Null
     /\ replied # <<>>
     /\ GetFileSucceeded(replied[1]))
    => /\ Len(calls) = 1
       /\ calls[1].method = "getFile"
       /\ calls[1].payload = <<[file_id |-> request[1].path[2]]>>
       /\ response[1].status = 302
       /\ response[1].location =
             <<<<"https://api.telegram.org/file/bot", env.BOT_TOKEN, "/",
                 replied[1].file_path>>>>

C11_Witness ==
    /\ FileProxyDone
    /\ request[1].path = <<"file", "FID">>
    /\ request[1].json = Null
    /\ replied # <<>>
    /\ replied[1].file_path = "documents/file_1.pdf"
    /\ response[1].status = 302

\* C12: for the same file_id and the same getFile result with a file_path,
\* the download_url of the 200 body of GET /file/{file_id}?json=true equals
\* the Location of the 302 of GET /file/{file_id} without the flag.
C12_SameUrlInBothModes ==
    (/\ previous # <<>>
     /\ FileProxyDone
     /\ previous[1].request.path = request[1].path
     /\ previous[1].request.json = "true"
     /\ request[1].json = Null
     /\ replied # <<>>
     /\ previous[1].replied = replied
     /\ GetFileSucceeded(replied[1]))
    => /\ previous[1].response.status = 200
       /\ response[1].status = 302
       /\ <<previous[1].response.body[1].file_info.download_url>> = response[1].location

C12_Witness ==
    /\ previous # <<>>
    /\ FileProxyDone
    /\ previous[1].request.path = <<"file", "FID2">>
    /\ request[1].path = <<"file", "FID2">>
    /\ previous[1].request.json = "true"
    /\ request[1].json = Null
    /\ previous[1].replied = replied
    /\ replied # <<>>
    /\ GetFileSucceeded(replied[1])
    /\ response[1].status = 302

\* C13: a GET request to /file/ with no id segment is answered 400 with an
\* error body, and no upstream call is made for it.
C13_MissingIdRejected ==
    (/\ pc = "done"
     /\ Truthy(env.BOT_TOKEN)
     /\ request[1].method = "GET"
     /\ request[1].path = <<"file", "">>)
    => /\ response[1].status = 400
       /\ response[1].body # <<>>
       /\ response[1].body[1].status = "error"
       /\ calls = <<>>

\* The description of the failure of a getFile call that did not yield a
\* file_path.
FailureDescription(reply) ==
    IF reply.kind = "throw" THEN reply.description
    ELSE IF reply.status \notin 200..299
    THEN (IF reply.kind = "json" THEN reply.description
          ELSE "Failed to parse error response")
    ELSE IF reply.kind # "json" THEN "Unexpected token in JSON"
    ELSE IF ~reply.ok THEN reply.description
    ELSE "file_path not available in file info."

\* C14: handleFileProxy answers with a redirect or a download_url only when
\* getFile succeeded with a non-empty file_path; in every other case it
\* answers 500 {status: "error", message} with the description of the
\* failure, and builds no download URL.
C14_NoUrlWithoutFilePath ==
    (FileProxyDone /\ replied # <<>>)
    => IF GetFileSucceeded(replied[1])
       THEN /\ response[1].status = (IF request[1].json = "true" THEN 200 ELSE 302)
            /\ request[1].json = "true" => "file_info" \in DOMAIN response[1].body[1]
            /\ request[1].json # "true" => response[1].location # <<>>
       ELSE /\ response[1].status = 500
            /\ response[1].location = <<>>
            /\ DOMAIN response[1].body[1] = {"status", "message"}
            /\ response[1].body[1].status = "error"
            /\ Contains(response[1].body[1].message, FailureDescription(replied[1]))

C14_Witness ==
    /\ FileProxyDone
    /\ replied # <<>>
    /\ replied[1].kind = "json"
    /\ replied[1].ok
    /\ replied[1].file_path = ""
    /\ response[1].status = 500

\* The string s occurs in the body or in the Location of the response.
Mentions(resp, s) ==
    \/ resp.location # <<>> /\ Contains(resp.location[1], s)
    \/ /\ resp.body # <<>>
       /\ LET b == resp.body[1]
          IN \/ b.status = s
             \/ "message" \in DOMAIN b /\ Contains(b.message, s)
             \/ /\ "file_info" \in DOMAIN b
                /\ b.file_info.file_path = s \/ Contains(b.file_info.download_url, s)
             \/ /\ "env" \in DOMAIN b
                /\ \/ b.env.bot_token = s
                   \/ b.env.secret_token = s
                   \/ Contains(b.env.worker_url, s)

\* C15 as stated: no response of GET /file/{file_id} contains the value of
\* BOT_TOKEN, in its body or in its Location.
C15_NoTokenInAnyResponse ==
    FileProxyDone => ~Mentions(response[1], env.BOT_TOKEN)

\* C15 amended: the 400 and 500 responses of GET /file/{file_id} never
\* contain the value of BOT_TOKEN; the Location of the 302 and the
\* download_url of the 200 body are the platform download URL, which
\* contains it.
C15_TokenOnlyInDownloadUrl ==
    FileProxyDone
    => /\ response[1].status \in {200, 302, 400, 500}
       /\ response[1].status \in {400, 500} => ~Mentions(response[1], env.BOT_TOKEN)
       /\ response[1].status = 302 => Contains(response[1].location[1], env.BOT_TOKEN)
       /\ response[1].status = 200
          => /\ Contains(response[1].body[1].file_info.download_url, env.BOT_TOKEN)
             /\ response[1].location = <<>>

C15_Witness ==
    /\ FileProxyDone
    /\ response[1].status = 500
    /\ replied # <<>>
    /\ replied[1].kind = "json"
    /\ replied[1].status = 400
    /\ ~Mentions(response[1], "BOT:TOKEN")

(***************************************************************************)
(* Properties of GET /debug and of the router                              *)
(***************************************************************************)
IsDebugRequest(req) ==
    req.method = "GET" /\ req.path \in {<<"debug">>, <<"debug", "">>}

\* C16: the body of the response to GET /debug never contains the value of
\* BOT_TOKEN or of SECRET_TOKEN, and it is the same for any two
\* configurations that agree on WORKER_URL and on which secrets are set.
C16_DebugRedacted ==
    (pc = "done" /\ IsDebugRequest(request[1]))
    => /\ Truthy(env.BOT_TOKEN) => ~Mentions(response[1], env.BOT_TOKEN)
       /\ Truthy(env.SECRET_TOKEN) => ~Mentions(response[1], env.SECRET_TOKEN)
       /\ handler = "debugEnv"
          => \A b \in BotTokens \cup {"OTHER:TOKEN"}, s \in SecretTokens \cup {"0ther"} :
                (Truthy(b) = Truthy(env.BOT_TOKEN) /\ Truthy(s) = Truthy(env.SECRET_TOKEN))
                => response[1].body =
                      debugEnv(request[1],
                               [env EXCEPT !.BOT_TOKEN = b, !.SECRET_TOKEN = s]).response[1].body

C16_Witness ==
    /\ pc = "done"
    /\ IsDebugRequest(request[1])
    /\ handler = "debugEnv"
    /\ env.BOT_TOKEN = "BOT:TOKEN"
    /\ env.SECRET_TOKEN = "s3cret"
    /\ response[1].body[1].env.bot_token = "[REDACTED]"
    /\ response[1].body[1].env.secret_token = "[REDACTED]"

\* C17: with BOT_TOKEN configured, a request other than OPTIONS whose method
\* and path match no route (a known path with another method included) is
\* answered 200 with the liveness body {status: "success", message}; no
\* handler is invoked and no upstream call is made.
C17_UnmatchedIsLiveness ==
    (/\ pc = "done"
     /\ Truthy(env.BOT_TOKEN)
     /\ request[1].method # "OPTIONS"
     /\ \A i \in 1..Len(routes) : ~RouteMatches(i, request[1].method, request[1].path))
    => /\ response[1].status = 200
       /\ DOMAIN response[1].body[1] = {"status", "message"}
       /\ response[1].body[1].status = "success"
       /\ response[1].body[1].message =
             <<"Telegram File Proxy Worker is running. See /debug for status.">>
       /\ handler = "none"
       /\ calls = <<>>
       /\ replied = <<>>

C17_Witness ==
    /\ pc = "done"
    /\ Truthy(env.BOT_TOKEN)
    /\ request[1].method = "POST"
    /\ request[1].path = <<"setWebhook">>
    /\ response[1].status = 200
    /\ handler = "none"

\* C18: without BOT_TOKEN (absent or empty) every request, whatever its
\* method and path, is answered with the 500 configuration error before any
\* routing: no handler is invoked and no upstream call is made.
C18_ConfigErrorBeforeRouting ==
    ~Truthy(env.BOT_TOKEN)
    => /\ handler = "none"
       /\ bodyRead = FALSE
       /\ calls = <<>>
       /\ pc \in {"idle", "received", "done"}
       /\ pc = "done"
          => /\ response[1].status = 500
             /\ response[1].body[1].status = "error"
             /\ response[1].body[1].message[1] = "Configuration error: "

C18_Witness ==
    /\ env.BOT_TOKEN = ""
    /\ pc = "done"
    /\ request[1].method = "OPTIONS"
    /\ request[1].path = <<"webhook">>
    /\ response[1].status = 500

\* C19: every response that fetch returns carries the permissive CORS
\* header Access-Control-Allow-Origin: *.
C19_CorsOnEveryResponse ==
    pc = "done"
    => /\ "Access-Control-Allow-Origin" \in DOMAIN response[1].headers
       /\ response[1].headers["Access-Control-Allow-Origin"] = "*"

\* The response has no body and no header besides the three CORS headers.
CorsOnly(resp) ==
    /\ resp.body = <<>>
    /\ resp.location = <<>>
    /\ DOMAIN resp.headers = {"Access-Control-Allow-Origin", "Access-Control-Allow-Methods",
                              "Access-Control-Allow-Headers"}
    /\ resp.headers["Access-Control-Allow-Origin"] = "*"

\* C20 as stated: every OPTIONS request, on any path and under any
\* configuration, gets an empty response with only the CORS headers, with
\* no handler invoked and no upstream call.
C20_PreflightUnderAnyConfiguration ==
    (pc = "done" /\ request[1].method = "OPTIONS")
    => /\ CorsOnly(response[1])
       /\ handler = "none"
       /\ calls = <<>>

\* C20 amended: every OPTIONS request, on any path, gets the empty response
\* with only the CORS headers when BOT_TOKEN is configured, and the 500
\* configuration error when it is not; in both cases no handler is invoked
\* and no upstream call is made.
C20_PreflightWhenConfigured ==
    (pc = "done" /\ request[1].method = "OPTIONS")
    => /\ handler = "none"
       /\ calls = <<>>
       /\ Truthy(env.BOT_TOKEN) => CorsOnly(response[1]) /\ response[1].status = 200
       /\ ~Truthy(env.BOT_TOKEN) => response[1].status = 500 /\ response[1].body # <<>>

C20_Witness ==
    /\ pc = "done"
    /\ request[1].method = "OPTIONS"
    /\ request[1].path = <<"file", "FID">>
    /\ env.BOT_TOKEN = "BOT:TOKEN"
    /\ CorsOnly(response[1])

(***************************************************************************)
(* Properties of the webhook management endpoints                          *)
(***************************************************************************)
\* The upstream answered with a success status and a JSON body with ok: true.
UpstreamSucceeded(reply) ==
    reply.kind = "json" /\ reply.status \in 200..299 /\ reply.ok

\* The host the worker is reached at: WORKER_URL, or the host of the request.
PublicHost ==
    IF env.WORKER_URL \in {Undefined, ""} THEN request[1].host ELSE env.WORKER_URL

\* C21: GET /setWebhook issues exactly one upstream setWebhook call with the
\* payload {url: "https://{host}/webhook", secret_token: SECRET_TOKEN or ""};
\* when the call succeeds the response is 200 {status: "success", message},
\* when it fails the response is 500 {status: "error", message} and the
\* message carries the upstream's description of the error.
C21_SetWebhookCall ==
    handler = "setWebhook"
    => /\ Len(calls) = 1
       /\ calls[1].method = "setWebhook"
       /\ calls[1].payload =
             <<[url |-> <<"https://", PublicHost, "/webhook">>,
                secret_token |-> IF env.SECRET_TOKEN = Undefined THEN ""
                                 ELSE env.SECRET_TOKEN]>>
       /\ pc = "upstream" => replied = <<>> /\ response = <<>>
       /\ replied # <<>>
          => /\ pc = "done"
             /\ Len(replied) = 1
             /\ DOMAIN response[1].body[1] = {"status", "message"}
             /\ IF UpstreamSucceeded(replied[1])
                THEN /\ response[1].status = 200
                     /\ response[1].body[1].status = "success"
                ELSE /\ response[1].status = 500
                     /\ response[1].body[1].status = "error"
                     /\ replied[1].description # Undefined
                        => Contains(response[1].body[1].message, replied[1].description)

C21_Witness ==
    /\ handler = "setWebhook"
    /\ pc = "done"
    /\ env.SECRET_TOKEN = Undefined
    /\ env.WORKER_URL = "files.example.com"
    /\ calls[1].payload[1].secret_token = ""
    /\ replied[1].kind = "json"
    /\ replied[1].status = 400
    /\ response[1].status = 500
    /\ Contains(response[1].body[1].message, "Bad Request")

\* C30: every response of GET /debug that fetch produces with the env
\* report has bot_token "[REDACTED]"; without BOT_TOKEN the request gets the
\* 500 configuration error, which has no env report; secret_token is
\* "[REDACTED]" when SECRET_TOKEN is set and "Not Set" when it is not.
C30_DebugBotTokenAlwaysRedacted ==
    (pc = "done" /\ IsDebugRequest(request[1]))
    => IF Truthy(env.BOT_TOKEN)
       THEN /\ handler = "debugEnv"
            /\ response[1].status = 200
            /\ response[1].body[1].env.bot_token = "[REDACTED]"
            /\ response[1].body[1].env.secret_token =
                  (IF env.SECRET_TOKEN \in {Undefined, ""} THEN "Not Set" ELSE "[REDACTED]")
       ELSE /\ handler = "none"
            /\ response[1].status = 500
            /\ "env" \notin DOMAIN response[1].body[1]

C30_Witness ==
    /\ pc = "done"
    /\ IsDebugRequest(request[1])
    /\ handler = "debugEnv"
    /\ env.SECRET_TOKEN = ""
    /\ response[1].body[1].env.bot_token = "[REDACTED]"
    /\ response[1].body[1].env.secret_token = "Not Set"

(***************************************************************************)
(* Requests in succession on the management and webhook endpoints: the     *)
(* operator's GET /setWebhook and GET /deleteWebhook, the platform's       *)
(* deliveries to POST /webhook, and a client that follows the proxy link   *)
(* of the message that handleWebhook sent.                                 *)
(***************************************************************************)
LinkFileIds == {"DOC", "a b", ".."}

\* The characters of the strings that occur in a proxy link's path.
Spelling(s) ==
    CASE s = "" -> <<>>
      [] s = "file" -> <<"f", "i", "l", "e">>
      [] s = "DOC" -> <<"D", "O", "C">>
      [] s = "a b" -> <<"a", " ", "b">>
      [] s = "a%20b" -> <<"a", "%", "2", "0", "b">>
      [] s = ".." -> <<".", ".">>

Spelled == {"", "file", "DOC", "a b", "a%20b", ".."}

Named(chars) == CHOOSE s \in Spelled : Spelling(s) = chars

\* The URL parser percent-encodes a space of the path; the other characters
\* used here are left as they are.
RECURSIVE PercentEncode(_)
PercentEncode(chars) ==
    IF chars = <<>> THEN <<>>
    ELSE (IF Head(chars) = " " THEN <<"%", "2", "0">> ELSE <<Head(chars)>>)
         \o PercentEncode(Tail(chars))

\* new URL(...).pathname of the path with the segments raw: a ".." segment
\* removes the segment before it, and as the last segment leaves the path
\* ending in "/"; every other segment is percent-encoded.
RECURSIVE Pathname(_, _)
Pathname(raw, out) ==
    IF raw = <<>> THEN out
    ELSE IF Spelling(Head(raw)) = <<".", ".">>
    THEN LET shortened == IF out = <<>> THEN <<>> ELSE SubSeq(out, 1, Len(out) - 1)
         IN Pathname(Tail(raw), IF Len(raw) = 1 THEN Append(shortened, "") ELSE shortened)
    ELSE Pathname(Tail(raw), Append(out, Named(PercentEncode(Spelling(Head(raw))))))

LinkedMessages ==
    {Message(<<[id |-> ChatId]>>, <<[file_id |-> id, file_name |-> "report.pdf"]>>,
             <<>>, <<>>, <<>>, <<>>) : id \in LinkFileIds}

Deliveries ==
    [method : {"POST"}, path : {<<"webhook">>}, host : {RequestHost}, json : {Null},
     secretHeader : SecretHeaders,
     body : {[kind |-> "object", message |-> <<m>>] : m \in LinkedMessages}]

ManagementRequests ==
    [method : {"GET"}, path : {<<"setWebhook">>, <<"deleteWebhook">>},
     host : {RequestHost}, json : {Null}, secretHeader : {Null}, body : {NoBody}]

\* The exchange before the current one ended with a proxy link sent to the chat.
LinkSent ==
    /\ previous # <<>>
    /\ previous[1].calls # <<>>
    /\ previous[1].calls[1].method = "sendMessage"
    /\ Contains(previous[1].calls[1].payload[1].text, "/file/")

SentLink ==
    LET text == previous[1].calls[1].payload[1].text
        i == CHOOSE k \in 1..Len(text) : text[k] = "/file/"
    IN [host |-> text[i - 1], file_id |-> text[i + 1]]

\* The GET request of a client that opens the link.
LinkRequest ==
    [method |-> "GET", path |-> Pathname(<<"file", SentLink.file_id>>, <<>>),
     host |-> SentLink.host, json |-> Null, secretHeader |-> Null, body |-> NoBody]

FollowLink ==
    /\ LinkSent
    /\ Receive(LinkRequest)

NextSuccession ==
    \/ \E r \in ManagementRequests \cup Deliveries : Receive(r)
    \/ FollowLink
    \/ fetch
    \/ BodyRead
    \/ \E reply \in Replies : UpstreamReply(reply)
    \/ DeliverRemembered

SpecSuccession == Init /\ [][NextSuccession]_vars

IsDeleteWebhook(req) ==
    req.method = "GET" /\ req.path \in {<<"deleteWebhook">>, <<"deleteWebhook", "">>}

\* C22: of two GET /deleteWebhook in succession, the second sends the same
\* upstream request setWebhook {url: ""} as the first, each is answered
\* {status: "success"} when its own upstream call succeeds, and the answer
\* to the second is that of a first call with the same upstream answer.
C22_DeleteWebhookIdempotent ==
    (/\ previous # <<>>
     /\ IsDeleteWebhook(previous[1].request)
     /\ handler = "deleteWebhook")
    => /\ Len(calls) = 1
       /\ calls[1].method = "setWebhook"
       /\ calls[1].payload = <<[url |-> <<>>]>>
       /\ calls = previous[1].calls
       /\ Len(previous[1].replied) = 1
       /\ UpstreamSucceeded(previous[1].replied[1])
          => /\ previous[1].response.status = 200
             /\ previous[1].response.body[1].status = "success"
       /\ (pc = "done" /\ UpstreamSucceeded(replied[1]))
          => /\ response[1].status = 200
             /\ response[1].body[1].status = "success"
       /\ (pc = "done" /\ replied = previous[1].replied)
          => response[1] = previous[1].response

C22_Witness ==
    /\ previous # <<>>
    /\ IsDeleteWebhook(previous[1].request)
    /\ previous[1].replied # <<>>
    /\ UpstreamSucceeded(previous[1].replied[1])
    /\ previous[1].response.body[1].status = "success"
    /\ handler = "deleteWebhook"
    /\ pc = "done"
    /\ UpstreamSucceeded(replied[1])
    /\ response[1].body[1].status = "success"

IsSetWebhook(req) ==
    req.method = "GET" /\ req.path \in {<<"setWebhook">>, <<"setWebhook", "">>}

\* The secret header of the platform's deliveries for a webhook registered
\* with secret_token: the secret, or no header when it is the empty string.
DeliveryHeader(secret_token) == IF secret_token = "" THEN Null ELSE secret_token

\* C27: after GET /setWebhook has sent secret_token = S upstream, a POST
\* /webhook that carries S in its secret header (no header when S is the
\* empty string) passes checkWebhookAuth: its body is read and it is not
\* answered 403.
C27_RegisteredSecretAccepted ==
    (/\ previous # <<>>
     /\ IsSetWebhook(previous[1].request)
     /\ previous[1].calls # <<>>
     /\ handler = "handleWebhook"
     /\ request[1].secretHeader = DeliveryHeader(previous[1].calls[1].payload[1].secret_token))
    => /\ bodyRead
       /\ pc # "done" => response = <<>>
       /\ pc = "done" => response[1].status # 403

C27_Witness ==
    /\ previous # <<>>
    /\ IsSetWebhook(previous[1].request)
    /\ previous[1].calls # <<>>
    /\ previous[1].calls[1].payload[1].secret_token = "s3cret"
    /\ handler = "handleWebhook"
    /\ request[1].secretHeader = "s3cret"
    /\ pc = "done"
    /\ response[1].status = 200

\* C28: when a client opens the proxy link that handleWebhook sent for a
\* file_id without "/", "?" or "#", the request is matched by the file route
\* and handleFileProxy calls getFile with that same file_id.
C28_LinkRoundTrip ==
    (/\ LinkSent
     /\ request = <<LinkRequest>>
     /\ pc \in {"upstream", "done"})
    => /\ handler = "handleFileProxy"
       /\ Len(calls) = 1
       /\ calls[1].method = "getFile"
       /\ calls[1].payload = <<[file_id |-> SentLink.file_id]>>

(***************************************************************************)
(* Properties of every exchange                                            *)
(***************************************************************************)
\* The response is JSON of the shape {status: "error", message}.
IsErrorBody(resp) ==
    /\ resp.kind = "json"
    /\ resp.headers["Content-Type"] = "application/json"
    /\ Len(resp.body) = 1
    /\ DOMAIN resp.body[1] = {"status", "message"}
    /\ resp.body[1].status = "error"
    /\ resp.body[1].message # <<>>

\* C23: every response with a status of 400 or more, from a handler, from
\* the configuration check or from the catch block of fetch, is a JSON body
\* of the shape {status: "error", message}.
C23_FailuresAreErrorJson ==
    /\ (pc = "done" /\ response[1].status >= 400) => IsErrorBody(response[1])
    /\ IsErrorBody(addCors(UnhandledError(<<"x">>)))

C23_Witness ==
    /\ pc = "done"
    /\ handler = "getWebhookInfo"
    /\ replied # <<>>
    /\ replied[1].kind = "text"
    /\ replied[1].status = 502
    /\ response[1].status = 500
    /\ IsErrorBody(response[1])

\* C24: handling one request sends at most one HTTP request to the upstream
\* platform; a call that has been answered, with a failure included, ends
\* the handling and is not issued again.
C24_AtMostOneUpstreamCall ==
    /\ Len(calls) <= 1
    /\ Len(replied) <= Len(calls)
    /\ pc = "upstream" => Len(calls) = 1 /\ replied = <<>>
    /\ replied # <<>> => pc = "done"

C24_Witness ==
    /\ handler = "setWebhook"
    /\ Len(calls) = 1
    /\ replied # <<>>
    /\ replied[1].kind = "throw"
    /\ pc = "done"
    /\ response[1].status = 500

(***************************************************************************)
(* Concurrent requests: the runtime calls fetch for a request while others *)
(* are suspended at their body read or at their upstream call.  Each       *)
(* invocation has its own request, params and response (locals of fetch    *)
(* and of the handler); env is the one object they all receive.            *)
(***************************************************************************)
ConcurrentRequests ==
    [method : {"POST"}, path : {<<"webhook">>}, host : {RequestHost}, json : {Null},
     secretHeader : {"s3cret"},
     body : {[kind |-> "object",
              message |-> <<Message(<<[id |-> ChatId]>>, <<>>, <<>>, <<>>, <<>>,
                                    <<SamplePhotos>>)>>],
             [kind |-> "object", message |-> <<>>]}]
    \cup [method : {"GET"}, path : {<<"file", "FID">>, <<"setWebhook">>, <<"debug">>},
          host : {RequestHost}, json : {Null, "true"}, secretHeader : {Null},
          body : {NoBody}]

\* The context of a request after a step of its handler.
After(slot, step) ==
    [slot EXCEPT !.pc = step.next,
                 !.calls = slot.calls \o step.call,
                 !.response = IF step.response = <<>> THEN <<>>
                              ELSE <<addCors(step.response[1])>>]

\* fetch on the request of the context, up to the first suspension.
Entered(slot, e) ==
    LET req == slot.request[1]
        route == MatchRoute(req.method, req.path)
    IN IF ~Truthy(e.BOT_TOKEN)
       THEN [slot EXCEPT !.pc = "done", !.response = <<ConfigError>>]
       ELSE IF req.method = "OPTIONS"
       THEN [slot EXCEPT !.pc = "done", !.response = <<Preflight>>]
       ELSE IF route = <<>>
       THEN [slot EXCEPT !.pc = "done", !.response = <<addCors(Liveness)>>]
       ELSE LET step == Invoke(route[1].handler, req, e, route[1].params)
            IN After([slot EXCEPT !.handler = route[1].handler,
                                  !.params = route[1].params,
                                  !.bodyRead = (step.next = "body")], step)

\* The body read of the context's request settles.
BodyWasRead(slot, e) == After(slot, handleWebhookBody(slot.request[1], e))

\* Variant: the handler resumes on the request that the worker received
\* last, kept outside the invocation.
Settled_lastRequest(slot, e, reply) ==
    LET last == IF inflight[MaxConcurrent].request # <<>>
                THEN inflight[MaxConcurrent].request[1] ELSE slot.request[1]
    IN [After(slot, Resume(slot.handler, last, e, reply))
           EXCEPT !.replied = Append(slot.replied, reply)]

\* The upstream call of the context's request settles with reply.
Settled(slot, e, reply) ==
    [After(slot, Resume(slot.handler, slot.request[1], e, reply))
        EXCEPT !.replied = Append(slot.replied, reply)]

Unrelated == <<request, pc, handler, params, bodyRead, calls, replied, response,
               previous, api>>

Arrive(s, r) ==
    /\ inflight[s].pc = "idle"
    /\ inflight' = [inflight EXCEPT ![s] = [IdleSlot EXCEPT !.request = <<r>>,
                                                            !.pc = "received"]]
    /\ UNCHANGED <<env, Unrelated>>

Enter(s) ==
    /\ inflight[s].pc = "received"
    /\ inflight' = [inflight EXCEPT ![s] = Entered(inflight[s], env)]
    /\ UNCHANGED <<env, Unrelated>>

ReadBody(s) ==
    /\ inflight[s].pc = "body"
    /\ inflight' = [inflight EXCEPT ![s] = BodyWasRead(inflight[s], env)]
    /\ UNCHANGED <<env, Unrelated>>

Settle(s, reply) ==
    /\ inflight[s].pc = "upstream"
    /\ inflight' = [inflight EXCEPT ![s] = Settled(inflight[s], env, reply)]
    /\ UNCHANGED <<env, Unrelated>>

NextConcurrent ==
    \/ \E s \in Slots, r \in ConcurrentRequests : Arrive(s, r)
    \/ \E s \in Slots : Enter(s)
    \/ \E s \in Slots : ReadBody(s)
    \/ \E s \in Slots, reply \in Replies : Settle(s, reply)

SpecConcurrent == Init /\ [][NextConcurrent]_vars

\* The request handled alone, with the upstream answering as in answers: its
\* context after every step that the answers allow.
Alone(req, e, answers) ==
    LET a == Entered([IdleSlot EXCEPT !.request = <<req>>, !.pc = "received"], e)
        b == IF a.pc = "body" THEN BodyWasRead(a, e) ELSE a
    IN IF b.pc = "upstream" /\ answers # <<>> THEN Settled(b, e, answers[1]) ELSE b

\* A context that has passed its body read is as far as the request gets
\* when it is handled alone.
PastBody(slot) == slot.pc \in {"upstream", "done"}

\* C25: in every interleaving of the concurrently handled requests, the
\* upstream calls and the response of each request are those of the same
\* request handled alone with the same upstream answers, and no step
\* changes the configuration.
C25_NoSharedState ==
    /\ [](\A s \in Slots :
            PastBody(inflight[s])
            => LET alone == Alone(inflight[s].request[1], env, inflight[s].replied)
               IN /\ inflight[s].calls = alone.calls
                  /\ inflight[s].response = alone.response
                  /\ inflight[s].pc = alone.pc)
    /\ [][env' = env]_vars

C25_Witness ==
    /\ inflight[1].pc = "done"
    /\ inflight[2].pc = "done"
    /\ inflight[1].request[1].path = <<"file", "FID">>
    /\ inflight[1].request[1].json = Null
    /\ inflight[2].request[1].path = <<"file", "FID">>
    /\ inflight[2].request[1].json = "true"
    /\ inflight[1].replied = inflight[2].replied
    /\ inflight[1].response[1].status = 302
    /\ inflight[2].response[1].status = 200

(***************************************************************************)
(* telegramApi on its own, over the answers an HTTP server can give        *)
(***************************************************************************)
ApiReplies ==
    [kind : {"throw", "text", "json", "null"}, status : {200, 204, 400, 500, 502},
     ok : BOOLEAN, description : {Undefined, "Bad Request"}, file_path : FilePaths]

InitApi ==
    /\ env \in Envs
    /\ request = <<>>
    /\ pc = "idle"
    /\ handler = "none"
    /\ params = NoParams
    /\ bodyRead = FALSE
    /\ calls = <<>>
    /\ replied = <<>>
    /\ response = <<>>
    /\ previous = <<>>
    /\ inflight = [s \in Slots |-> IdleSlot]
    /\ api \in [reply : {<<r>> : r \in ApiReplies}, outcome : {<<>>}]

\* The call settles: telegramApi returns or throws.
CallTelegramApi ==
    /\ api.reply # <<>>
    /\ api.outcome = <<>>
    /\ api' = [api EXCEPT !.outcome = <<telegramApi(api.reply[1])>>]
    /\ UNCHANGED <<env, request, pc, handler, params, bodyRead, calls, replied, response,
                   previous, inflight>>

NextApi == CallTelegramApi

SpecApi == InitApi /\ [][NextApi]_vars

\* C26: telegramApi returns the result exactly when the HTTP status is a
\* success and the body has ok: true; on another HTTP status it throws an
\* error that carries the status and the body's description, or the fallback
\* string when the body is not JSON; on a success status with ok: false it
\* throws an error that carries the body's description.
C26_TelegramApiContract ==
    api.outcome # <<>>
    => LET reply == api.reply[1]
           outcome == api.outcome[1]
           answered == reply.kind # "throw"
           success == answered /\ reply.status \in 200..299
       IN /\ ~outcome.threw <=> (success /\ reply.kind = "json" /\ reply.ok)
          /\ ~outcome.threw => outcome.result = [file_path |-> reply.file_path]
          /\ (answered /\ ~success)
             => /\ outcome.threw
                /\ Contains(outcome.message, ToString(reply.status))
                /\ Contains(outcome.message,
                            IF reply.kind = "text" THEN "Failed to parse error response"
                            ELSE reply.description)
          /\ (success /\ reply.kind = "json" /\ ~reply.ok)
             => outcome.threw /\ Contains(outcome.message, reply.description)

(***************************************************************************)
(* Progress of a request: the runtime runs fetch, the body read settles,   *)
(* and every upstream call returns or fails.                               *)
(***************************************************************************)
LiveRequests ==
    OtherRequests
    \cup Deliveries
    \cup [method : {"POST"}, path : {<<"webhook">>}, host : {RequestHost}, json : {Null},
          secretHeader : {Null, "wrong"},
          body : {[kind |-> "notjson", message |-> <<>>],
                  [kind |-> "null", message |-> <<>>],
                  [kind |-> "object", message |-> <<>>],
                  [kind |-> "object",
                   message |-> <<Message(<<>>, <<>>, <<>>, <<>>, <<>>, <<SamplePhotos>>)>>],
                  [kind |-> "object",
                   message |-> <<Message(<<[id |-> ChatId]>>, <<>>, <<>>, <<>>, <<>>,
                                         <<>>)>>]}]

NextLive ==
    \/ \E r \in LiveRequests : Receive(r)
    \/ fetch
    \/ BodyRead
    \/ \E reply \in Replies : UpstreamReply(reply)
    \/ Deliver

SpecLive ==
    /\ Init
    /\ [][NextLive]_vars
    /\ WF_vars(fetch)
    /\ WF_vars(BodyRead)
    /\ WF_vars(\E reply \in Replies : UpstreamReply(reply))

\* C29: every request that fetch is called for gets a response, and exactly
\* one: a response exists exactly when the handling has ended, there is
\* never more than one, and it is not replaced.
C29_EventuallyOneResponse ==
    /\ (pc = "received") ~> (pc = "done")
    /\ [](Len(response) <= 1 /\ (pc = "done" <=> response # <<>>))
    /\ [][response # <<>> /\ response' # <<>> => response' = response]_vars

C29_Witness ==
    /\ pc = "done"
    /\ handler = "handleWebhook"
    /\ request[1].body.kind = "notjson"
    /\ response # <<>>
    /\ response[1].status = 500

====
